---- MODULE Spec2Model ----
(***************************************************************************)
(* Order translation and submission engine of valhalla-mm: the three       *)
(* orchestrators marketOrder, limitOrder and cancelLimitOrder, the         *)
(* approval helpers they call, and the realtimeWriteContract send path.    *)
(*                                                                         *)
(* Every orchestrator invocation is a chain of awaits.  One action models  *)
(* the code that runs between two awaits (or one step of the send path),   *)
(* so that invocations of different callers interleave exactly where the   *)
(* JavaScript event loop lets them.                                        *)
(***************************************************************************)
EXTENDS Integers, Sequences, FiniteSets, TLC

(***************************************************************************)
(* Bounds of the model.                                                    *)
(***************************************************************************)
\* viem's maxUint128 and maxUint256 are 2^128-1 and 2^256-1.  The model keeps
\* the two widths in the ratio 1:2 and scales them to W and 2W bits.
W == 4
\* fillVolume ranges over 1..MaxFillVolume
MaxFillVolume == 1
\* human prices given to the orchestrators range over -1..MaxPrice
MaxPrice == 2
\* number of orchestrator calls one caller makes in a row (SpecSeq)
MaxCalls == 2
\* offer ids range over 1..MaxOfferId
MaxOfferId == 1
\* the price grid: tick t stands for the price TickBase^t (1.0001^t in the
\* protocol library), one decimal is a factor DecimalBase (10 in the library)
TickBase == 2
DecimalBase == 2
\* conversions are applied to the prices -1..MaxConvPrice, on markets with
\* tick spacing 1..MaxTickSpacing and token decimals 0..MaxDecimals
MaxConvPrice == 9
MaxTickSpacing == 2
MaxDecimals == 1
\* the protocol's largest tick, also the unbounded-price sentinel (887272 on
\* the 1.0001 grid); the prices converted reach ticks on both sides of it
MAX_TICK == 3

maxUint128 == 2^W - 1
maxUint256 == 2^(2*W) - 1

(***************************************************************************)
(* Configuration: contract addresses, the account, the traded market.      *)
(***************************************************************************)
params == [mgv |-> "mgv", mgvOrder |-> "mgvOrder", mgvReader |-> "mgvReader"]

\* the callers that may run orchestrator invocations on the one account
Procs == {"c1", "c2"}

BS == {"buy", "sell"}

\* MEGA_USDC of index.ts: the base and quote token of the traded market
market == [base |-> [address |-> "base", decimals |-> 1],
           quote |-> [address |-> "quote", decimals |-> 0],
           tickSpacing |-> 1]

Tokens == {market.base.address, market.quote.address}
\* the user router that getUserRouter resolves for the account
UserRouter == "router"
Spenders == {params.mgv, UserRouter}
Pairs == Tokens \X Spenders

\* allowances an account can start with: none, just below the threshold
\* (which covers every fillVolume of the model), and the threshold itself
AllowanceSamples == {0, maxUint128 - 1, maxUint128}
FillVolumes == 1..MaxFillVolume
Prices == (0 - 1)..MaxPrice
\* the offers of the account the run can address; an offer posted during the
\* run gets an id beyond them
OfferIds == 1..MaxOfferId
NewOfferId == MaxOfferId + 1

VARIABLES
  allowance,   \* the ERC20 allowance ledger of the account: Pairs -> Nat
  nextNonce,   \* the nonce manager's next nonce for the account
  callsLeft,   \* per caller: orchestrator calls it may still start
  inv,         \* per caller: the running (or last finished) invocation
  prev,        \* per caller: summary of the invocation before the current one
  offers,      \* ids of the account's offers resting on the book
  draft,       \* a limit order intent and, once built, the call built for
               \* it (SpecBuild)
  conv         \* a price-to-tick conversion: its inputs and, once applied, the
               \* ticks an orchestrator sends for a buy and for a sell (SpecTick)

vars == <<allowance, nextNonce, callsLeft, inv, prev, offers, conv, draft>>

(***************************************************************************)
(* Invocation records.                                                     *)
(***************************************************************************)
NoRead == 0 - 1
NoTx == [fn |-> "none", address |-> "none", args |-> <<>>, state |-> "None",
         nonce |-> 0 - 1, method |-> "none", status |-> "none", logs |-> {}]
NoResult == [kind |-> "none"]
NoPrev == [kind |-> "none", bs |-> "none", gated |-> FALSE,
           offerId |-> 0, success |-> FALSE]
NoOffer == [id |-> 0]
NoTick == [ok |-> FALSE, tick |-> 0]
NoConv == [op |-> "none", price |-> 0, market |-> market,
           buy |-> NoTick, sell |-> NoTick]

IdleInv == [pc |-> "idle", kind |-> "none", bs |-> "none", fillVolume |-> 0,
            fillWants |-> FALSE, hasPrice |-> FALSE, price |-> 0,
            skipApprovalCheck |-> FALSE, tick |-> 0, converted |-> FALSE,
            offerId |-> 0, deprovision |-> FALSE, offerLive |-> "none",
            userRouter |-> "none", book |-> "none",
            token |-> "none", spender |-> "none", approval |-> NoRead,
            gateOk |-> FALSE, cur |-> "none",
            approveTx |-> NoTx, orderTx |-> NoTx,
            trace |-> <<>>, outcome |-> "none", error |-> "none",
            orderType |-> "none", baseTokenLogic |-> "none",
            quoteTokenLogic |-> "none",
            result |-> NoResult, logged |-> "none"]

\* optional properties of a limit order intent: a property left out is
\* undefined and takes the default of the destructuring
Undefined == "undefined"
zeroAddress == "0x0"
Order == [GTC |-> "GTC", PO |-> "PO"]
NoOptions == [orderType |-> Undefined, baseTokenLogic |-> Undefined,
              quoteTokenLogic |-> Undefined]
WithDefault(given, default) == IF given = Undefined THEN default ELSE given

NoDraft == [op |-> "none", bs |-> "none", options |-> NoOptions,
            market |-> market, request |-> NoTx]

(***************************************************************************)
(* Tick/price conversion (the protocol library's humanPriceToRawPrice and  *)
(* tickFromPrice).  A raw price is the fraction num/den.                   *)
(***************************************************************************)
RECURSIVE Pow(_, _)
Pow(b, e) == IF e = 0 THEN 1 ELSE b * Pow(b, e - 1)

\* largest k with TickBase^k <= n, for n >= 1
RECURSIVE FloorLog(_)
FloorLog(n) == IF n < TickBase THEN 0 ELSE 1 + FloorLog(n \div TickBase)

\* smallest k with TickBase^k * num >= den, for 1 <= num
RECURSIVE CeilLogInv(_, _)
CeilLogInv(num, den) ==
  IF num >= den THEN 0 ELSE 1 + CeilLogInv(num * TickBase, den)

\* price * 10^(quote.decimals - base.decimals)
humanPriceToRawPrice(price, mkt) ==
  LET d == mkt.quote.decimals - mkt.base.decimals
  IN  IF d >= 0 THEN [num |-> price * Pow(DecimalBase, d), den |-> 1]
                ELSE [num |-> price, den |-> Pow(DecimalBase, 0 - d)]

\* floor(log_TickBase(raw)), floored to a multiple of tickSpacing; a price
\* <= 0 has no logarithm and the conversion throws
tickFromPrice(raw, tickSpacing) ==
  IF raw.num <= 0 THEN [ok |-> FALSE, tick |-> 0]
  ELSE LET t == IF raw.num >= raw.den THEN FloorLog(raw.num \div raw.den)
                ELSE 0 - CeilLogInv(raw.num, raw.den)
       IN  [ok |-> TRUE, tick |-> t - (t % tickSpacing)]

\* the closure without the reversal on buy
MarketMaxTick_NoReverse(bs, hasPrice, maxPrice, mkt) ==
  IF ~hasPrice \/ maxPrice = 0
  THEN [ok |-> TRUE, tick |-> MAX_TICK, converted |-> FALSE]
  ELSE LET t == tickFromPrice(humanPriceToRawPrice(maxPrice, mkt),
                              mkt.tickSpacing)
       IN  [ok |-> t.ok, tick |-> t.tick, converted |-> TRUE]

\* the closure with the sentinel reversed on buy like a converted tick
MarketMaxTick_SentinelReversed(bs, hasPrice, maxPrice, mkt) ==
  LET t == IF ~hasPrice \/ maxPrice = 0
           THEN [ok |-> TRUE, tick |-> MAX_TICK, converted |-> FALSE]
           ELSE LET c == tickFromPrice(humanPriceToRawPrice(maxPrice, mkt),
                                       mkt.tickSpacing)
                IN  [ok |-> c.ok, tick |-> c.tick, converted |-> TRUE]
  IN  IF ~t.ok THEN t
      ELSE [t EXCEPT !.tick = IF bs = "buy" THEN 0 - t.tick ELSE t.tick]

\* marketOrder: the maxTick closure; converted tells whether the price
\* conversion was invoked
MarketMaxTick(bs, hasPrice, maxPrice, mkt) ==
  IF ~hasPrice \/ maxPrice = 0
  THEN [ok |-> TRUE, tick |-> MAX_TICK, converted |-> FALSE]
  ELSE LET rawPrice == humanPriceToRawPrice(maxPrice, mkt)
           t == tickFromPrice(rawPrice, mkt.tickSpacing)
       IN  IF ~t.ok THEN [ok |-> FALSE, tick |-> t.tick, converted |-> TRUE]
           ELSE [ok |-> TRUE,
                 tick |-> IF bs = "buy" THEN 0 - t.tick ELSE t.tick,
                 converted |-> TRUE]

\* limitOrder: rawPrice, tick, reversal on buy
LimitTick(bs, price, mkt) ==
  LET rawPrice == humanPriceToRawPrice(price, mkt)
      t == tickFromPrice(rawPrice, mkt.tickSpacing)
  IN  IF ~t.ok THEN t
      ELSE [ok |-> TRUE, tick |-> IF bs = "buy" THEN 0 - t.tick ELSE t.tick]

(***************************************************************************)
(* Authorization gate helpers.                                             *)
(***************************************************************************)
\* the gate on the token the taker wants
GateToken_Wanted(bs, mkt) ==
  IF bs = "buy" THEN mkt.base.address ELSE mkt.quote.address

\* token = bs === BS.buy ? market.quote.address : market.base.address
GateToken(bs, mkt) ==
  IF bs = "buy" THEN mkt.quote.address ELSE mkt.base.address

\* the spender whose allowance each orchestrator queries
MarketQueriedSpender == params.mgv
LimitQueriedSpender(userRouter) == userRouter
\* the spender each orchestrator passes to giveApprovalTo
MarketApprovedSpender == params.mgv
LimitApprovedSpender(userRouter) == params.mgv

\* the comparison with <= in place of <
NeedsApproval_AtMost(a) == a <= maxUint128

\* approval.allowance < maxUint128
NeedsApproval(a) == a < maxUint128

\* a default amount of just the threshold
DefaultApprovalAmount_Threshold == maxUint128

\* an authorization for the largest volume of an order only
DefaultApprovalAmount_Volume == MaxFillVolume

\* the default of giveApprovalTo's amount parameter
DefaultApprovalAmount == maxUint256

\* giveApprovalTo's request to realtimeWriteContract
ApproveRequest(token, spender, amount) ==
  [NoTx EXCEPT !.fn = "approve", !.address = token,
               !.args = [spender |-> spender, amount |-> amount]]

(***************************************************************************)
(* Order builders.                                                         *)
(***************************************************************************)
getSemibooksOLKeys(mkt) ==
  [asksMarket |-> [side |-> "asks", outbound_tkn |-> mkt.base.address,
                   inbound_tkn |-> mkt.quote.address,
                   tickSpacing |-> mkt.tickSpacing],
   bidsMarket |-> [side |-> "bids", outbound_tkn |-> mkt.quote.address,
                   inbound_tkn |-> mkt.base.address,
                   tickSpacing |-> mkt.tickSpacing]]

\* the semibooks taken the other way round
SelectOLKey_Swapped(bs, mkt) ==
  IF bs = "buy" THEN getSemibooksOLKeys(mkt).bidsMarket
                ELSE getSemibooksOLKeys(mkt).asksMarket

\* olKey = bs === BS.buy ? asksMarket : bidsMarket
SelectOLKey(bs, mkt) ==
  IF bs = "buy" THEN getSemibooksOLKeys(mkt).asksMarket
                ELSE getSemibooksOLKeys(mkt).bidsMarket

\* what getBook returns for the market
Book == [bidsConfig |-> "bidsConfig", asksConfig |-> "asksConfig",
         marketConfig |-> "marketConfig"]

MarketOrderRequest(i, mkt) ==
  [NoTx EXCEPT !.fn = "marketOrderByTick", !.address = params.mgv,
               !.args = [olKey |-> SelectOLKey(i.bs, mkt),
                         fillVolume |-> i.fillVolume,
                         fillWants |-> i.fillWants,
                         maxTick |-> i.tick]]

\* the local configuration of the semibook taken
LocalConfig_TakenSide(bs, book) ==
  IF bs = "buy" THEN book.asksConfig ELSE book.bidsConfig

\* localConfig: bs === BS.buy ? book.bidsConfig : book.asksConfig
LocalConfig(bs, book) ==
  IF bs = "buy" THEN book.bidsConfig ELSE book.asksConfig

\* the base logic on the side the taker gives on a buy
TakerGivesLogic_BaseOnBuy(bs, baseTokenLogic, quoteTokenLogic) ==
  IF bs = "buy" THEN baseTokenLogic ELSE quoteTokenLogic

\* takerGivesLogic: bs === BS.buy ? quoteTokenLogic : baseTokenLogic
TakerGivesLogic(bs, baseTokenLogic, quoteTokenLogic) ==
  IF bs = "buy" THEN quoteTokenLogic ELSE baseTokenLogic

\* takerWantsLogic: bs === BS.buy ? baseTokenLogic : quoteTokenLogic
TakerWantsLogic(bs, baseTokenLogic, quoteTokenLogic) ==
  IF bs = "buy" THEN baseTokenLogic ELSE quoteTokenLogic

LimitOrderRequest(i, tick, mkt) ==
  [NoTx EXCEPT !.fn = "take", !.address = params.mgvOrder,
               !.args = [olKey |-> SelectOLKey(i.bs, mkt),
                         tick |-> tick,
                         localConfig |-> LocalConfig(i.bs, i.book),
                         globalConfig |-> i.book.marketConfig,
                         fillVolume |-> i.fillVolume,
                         fillWants |-> i.fillWants,
                         orderType |-> i.orderType,
                         takerGivesLogic |->
                           TakerGivesLogic(i.bs, i.baseTokenLogic,
                                           i.quoteTokenLogic),
                         takerWantsLogic |->
                           TakerWantsLogic(i.bs, i.baseTokenLogic,
                                           i.quoteTokenLogic)]]

CancelRequest(i, mkt) ==
  [NoTx EXCEPT !.fn = "retractOffer", !.address = params.mgvOrder,
               !.args = [bs |-> i.bs,
                         offerId |-> i.offerId,
                         deprovision |-> i.deprovision]]

(***************************************************************************)
(* Invocation bookkeeping.                                                 *)
(***************************************************************************)
Throw(i, msg) == [i EXCEPT !.pc = "done", !.outcome = "threw", !.error = msg]

CurTx(i) == IF i.cur = "approve" THEN i.approveTx ELSE i.orderTx
SetCurTx(i, tx) ==
  IF i.cur = "approve" THEN [i EXCEPT !.approveTx = tx]
                       ELSE [i EXCEPT !.orderTx = tx]

Ev(i, stage, step) == [i EXCEPT !.trace = Append(@, <<stage, step>>)]

\* summary of a finished invocation, kept while the caller runs its next one
Summary(i) ==
  [kind |-> i.kind, bs |-> i.bs, gated |-> i.gateOk, offerId |-> i.offerId,
   success |-> i.kind = "cancel" /\ i.outcome = "returned" /\ i.result.success]

CanStart(p) == inv[p].pc \in {"idle", "done"} /\ callsLeft[p] > 0

Begin(p, i) ==
  /\ inv' = [inv EXCEPT ![p] = i]
  /\ prev' = [prev EXCEPT ![p] = IF inv[p].pc = "done" THEN Summary(inv[p])
                                 ELSE NoPrev]
  /\ callsLeft' = [callsLeft EXCEPT ![p] = @ - 1]
  /\ UNCHANGED <<allowance, nextNonce, offers, conv, draft>>

Step(p, i) ==
  /\ inv' = [inv EXCEPT ![p] = i]
  /\ UNCHANGED <<allowance, nextNonce, callsLeft, prev, offers, conv, draft>>

\* the code after the gate: the order is built next
AfterGate(i) == [i EXCEPT !.pc = "build"]

\* the gate entered whatever skipApprovalCheck says
EnterGate_IgnoresSkip(i, queried) ==
  [i EXCEPT !.token = GateToken(i.bs, market), !.spender = queried,
            !.pc = "getApprovals"]

\* the code from `if (!skipApprovalCheck)` up to the await of getApprovals
EnterGate(i, queried) ==
  IF i.skipApprovalCheck THEN AfterGate(i)
  ELSE [i EXCEPT !.token = GateToken(i.bs, market), !.spender = queried,
                 !.pc = "getApprovals"]

(***************************************************************************)
(* marketOrder                                                             *)
(***************************************************************************)
StartMarketOrder(p, bs, fillVolume, fillWants, hasPrice, maxPrice, skip) ==
  /\ CanStart(p)
  /\ LET i0 == [IdleInv EXCEPT !.kind = "market", !.bs = bs,
                               !.fillVolume = fillVolume,
                               !.fillWants = fillWants,
                               !.hasPrice = hasPrice, !.price = maxPrice,
                               !.skipApprovalCheck = skip,
                               !.outcome = "running"]
         maxTick == MarketMaxTick(bs, hasPrice, maxPrice, market)
         i1 == [i0 EXCEPT !.converted = maxTick.converted]
     IN  IF ~maxTick.ok THEN Begin(p, Throw(i1, "Invalid price"))
         ELSE Begin(p, EnterGate([i1 EXCEPT !.tick = maxTick.tick],
                                 MarketQueriedSpender))

(***************************************************************************)
(* limitOrder                                                              *)
(***************************************************************************)
\* the destructuring of the props: orderType = Order.GTC,
\* baseTokenLogic = zeroAddress, quoteTokenLogic = zeroAddress
LimitOrderProps(bs, fillVolume, fillWants, price, skip, options) ==
  [IdleInv EXCEPT !.kind = "limit", !.bs = bs,
                  !.fillVolume = fillVolume,
                  !.fillWants = fillWants,
                  !.hasPrice = TRUE, !.price = price,
                  !.skipApprovalCheck = skip,
                  !.orderType = WithDefault(options.orderType, Order.GTC),
                  !.baseTokenLogic =
                    WithDefault(options.baseTokenLogic, zeroAddress),
                  !.quoteTokenLogic =
                    WithDefault(options.quoteTokenLogic, zeroAddress)]

StartLimitOrder(p, bs, fillVolume, fillWants, price, skip, options) ==
  /\ CanStart(p)
  /\ Begin(p, [LimitOrderProps(bs, fillVolume, fillWants, price, skip,
                               options)
                 EXCEPT !.outcome = "running", !.pc = "getUserRouter"])

\* userRouter = await client.getUserRouter({ user })
GetUserRouter(p) ==
  /\ inv[p].pc = "getUserRouter"
  /\ Step(p, [Ev(inv[p], "props", "getUserRouter")
                EXCEPT !.userRouter = UserRouter, !.pc = "getBook"])

\* book = await getBook(...), then the code up to the next await
GetBook(p) ==
  /\ inv[p].pc = "getBook"
  /\ LET i == [Ev(inv[p], "props", "getBook") EXCEPT !.book = Book]
     IN  Step(p, EnterGate(i, LimitQueriedSpender(i.userRouter)))

(***************************************************************************)
(* cancelLimitOrder                                                        *)
(***************************************************************************)
StartCancelLimitOrder(p, bs, offerId, deprovision) ==
  /\ CanStart(p)
  /\ Begin(p, [IdleInv EXCEPT !.kind = "cancel", !.bs = bs,
                              !.offerId = offerId,
                              !.deprovision = deprovision,
                              !.outcome = "running", !.pc = "build"])

(***************************************************************************)
(* The authorization gate of marketOrder and limitOrder.                   *)
(***************************************************************************)
\* the allowance of the other spender returned in the place of the asked one
getApprovals_OtherSpender(ledger, token, spender) ==
  ledger[<<token, IF spender = params.mgv THEN UserRouter ELSE params.mgv>>]

\* getApprovals for one (token, spender): allowance(account, spender) on token
getApprovals(ledger, token, spender) == ledger[<<token, spender>>]

\* getApprovals answers; the allowance is compared with maxUint128 and, when
\* it is lower, giveApprovalTo hands its request to realtimeWriteContract
GetApprovals(p) ==
  /\ inv[p].pc = "getApprovals"
  /\ LET i == [Ev(inv[p], "gate", "read")
                 EXCEPT !.approval =
                   getApprovals(allowance, inv[p].token, inv[p].spender)]
         approved == IF i.kind = "market" THEN MarketApprovedSpender
                     ELSE LimitApprovedSpender(i.userRouter)
     IN  IF NeedsApproval(i.approval)
         THEN Step(p, [Ev(i, "gate", "giveApprovalTo")
                         EXCEPT !.cur = "approve", !.pc = "rt_encode",
                                !.approveTx = ApproveRequest(i.token, approved,
                                                DefaultApprovalAmount)])
         ELSE Step(p, AfterGate([i EXCEPT !.gateOk = TRUE]))

\* giveApprovalTo returning the receipt without looking at its status
ApprovalReceipt_NoRevertCheck(p) ==
  /\ inv[p].pc = "approvalReceipt"
  /\ Step(p, AfterGate([inv[p] EXCEPT !.gateOk = TRUE]))

\* giveApprovalTo after its await: a reverted receipt throws
ApprovalReceipt(p) ==
  /\ inv[p].pc = "approvalReceipt"
  /\ IF inv[p].approveTx.status = "reverted"
     THEN Step(p, Throw(inv[p], "Approval failed"))
     ELSE Step(p, AfterGate([inv[p] EXCEPT !.gateOk = TRUE]))

(***************************************************************************)
(* Order building, receipt check and result decoding.                      *)
(***************************************************************************)
OrderFailedMessage(kind) ==
  CASE kind = "market" -> "Market order failed"
    [] kind = "limit"  -> "Limit order failed"
    [] OTHER           -> "Limit order cancellation failed"

BuildOrder(p) ==
  /\ inv[p].pc = "build"
  /\ LET i == inv[p]
         go(req) == Step(p, [Ev(i, "order", "build")
                               EXCEPT !.cur = "order", !.orderTx = req,
                                      !.pc = "rt_encode"])
     IN  CASE i.kind = "market" -> go(MarketOrderRequest(i, market))
           [] i.kind = "cancel" -> go(CancelRequest(i, market))
           [] OTHER ->
                LET t == LimitTick(i.bs, i.price, market)
                IN  IF ~t.ok
                    THEN Step(p, Throw([i EXCEPT !.converted = TRUE],
                                       "Invalid price"))
                    ELSE Step(p, [Ev(i, "order", "build")
                                    EXCEPT !.cur = "order", !.tick = t.tick,
                                           !.converted = TRUE,
                                           !.orderTx = LimitOrderRequest(i, t.tick, market),
                                           !.pc = "rt_encode"])

\* the orchestrator decoding whatever receipt came back
OrderReceipt_NoRevertCheck(p) ==
  /\ inv[p].pc = "orderReceipt"
  /\ Step(p, [inv[p] EXCEPT !.pc = "decode"])

\* the orchestrator building and sending the order again after a revert
OrderReceipt_Retry(p) ==
  /\ inv[p].pc = "orderReceipt"
  /\ IF inv[p].orderTx.status = "reverted"
     THEN Step(p, [inv[p] EXCEPT !.pc = "build"])
     ELSE Step(p, [inv[p] EXCEPT !.pc = "decode"])

OrderReceipt(p) ==
  /\ inv[p].pc = "orderReceipt"
  /\ IF inv[p].orderTx.status = "reverted"
     THEN Step(p, Throw(inv[p], OrderFailedMessage(inv[p].kind)))
     ELSE Step(p, [inv[p] EXCEPT !.pc = "decode"])

\* marketOrderResultFromLogs / limitOrderResultFromLogs /
\* removeOrderResultFromLogs on the receipt's logs, then return
marketOrderResultFromLogs(logs) == [kind |-> "market"]

\* the offer is present when the logs carry the event of a resting offer
limitOrderResultFromLogs(logs) ==
  [kind |-> "limit",
   offer |-> IF \E e \in logs : e.name = "NewOwnedOffer"
             THEN [id |-> (CHOOSE e \in logs : e.name = "NewOwnedOffer").id]
             ELSE NoOffer]

\* success is whether the logs carry the retraction of the offer
removeOrderResultFromLogs(logs, offerId) ==
  [kind |-> "cancel",
   success |-> \E e \in logs : e.name = "OfferRetract" /\ e.id = offerId]

Return(p, i, result, message) ==
  Step(p, [i EXCEPT !.result = result, !.logged = message,
                    !.pc = "done", !.outcome = "returned"])

\* the log line of limitOrder reading the offer's fields without the test
Decode_OfferRequired(p) ==
  /\ inv[p].pc = "decode"
  /\ LET i == Ev(inv[p], "order", "decode")
         logs == i.orderTx.logs
     IN  CASE i.kind = "market" ->
                Return(p, i, marketOrderResultFromLogs(logs), "executed")
           [] i.kind = "limit" ->
                LET r == limitOrderResultFromLogs(logs)
                IN  IF r.offer = NoOffer THEN Step(p, Throw(i, "TypeError"))
                    ELSE Return(p, i, r, "offer")
           [] OTHER ->
                LET r == removeOrderResultFromLogs(logs, i.offerId)
                IN  Return(p, i, r, IF r.success THEN "cancelled"
                                    ELSE "not found")

\* cancelLimitOrder treating an offer that was not found as a failure
Decode_NotFoundThrows(p) ==
  /\ inv[p].pc = "decode"
  /\ LET i == Ev(inv[p], "order", "decode")
         logs == i.orderTx.logs
     IN  CASE i.kind = "market" ->
                Return(p, i, marketOrderResultFromLogs(logs), "executed")
           [] i.kind = "limit" ->
                LET r == limitOrderResultFromLogs(logs)
                IN  Return(p, i, r, IF r.offer # NoOffer THEN "offer" ELSE "")
           [] OTHER ->
                LET r == removeOrderResultFromLogs(logs, i.offerId)
                IN  IF r.success THEN Return(p, i, r, "cancelled")
                    ELSE Step(p, Throw(i, OrderFailedMessage(i.kind)))

\* the code after the revert check: the result is decoded from the logs, a
\* line is logged (limitOrder: the offer if there is one; cancelLimitOrder:
\* cancelled or not found) and the call returns
Decode(p) ==
  /\ inv[p].pc = "decode"
  /\ LET i == Ev(inv[p], "order", "decode")
         logs == i.orderTx.logs
     IN  CASE i.kind = "market" ->
                Return(p, i, marketOrderResultFromLogs(logs), "executed")
           [] i.kind = "limit" ->
                LET r == limitOrderResultFromLogs(logs)
                IN  Return(p, i, r, IF r.offer # NoOffer THEN "offer" ELSE "")
           [] OTHER ->
                LET r == removeOrderResultFromLogs(logs, i.offerId)
                IN  Return(p, i, r, IF r.success THEN "cancelled"
                                    ELSE "not found")

(***************************************************************************)
(* realtimeWriteContract                                                   *)
(***************************************************************************)
SubmitMethod == "realtime_sendRawTransaction"

Stage(i) == IF i.cur = "approve" THEN "gate" ELSE "order"
ReceiptPc(i) == IF i.cur = "approve" THEN "approvalReceipt" ELSE "orderReceipt"

\* data = encodeFunctionData({abi, functionName, args})
EncodeFunctionData(p) ==
  /\ inv[p].pc = "rt_encode"
  /\ LET i == inv[p]
     IN  Step(p, [SetCurTx(Ev(i, Stage(i), "encode"),
                           [CurTx(i) EXCEPT !.state = "Built"])
                    EXCEPT !.pc = "rt_prepare"])

\* the account's nonce read for the request without being consumed
PrepareTransactionRequest_NoConsume(p, ok) ==
  /\ inv[p].pc = "rt_prepare"
  /\ LET i == inv[p]
     IN  IF ok
         THEN Step(p, [SetCurTx(Ev(i, Stage(i), "prepare"),
                                [CurTx(i) EXCEPT !.state = "Prepared",
                                                 !.nonce = nextNonce])
                         EXCEPT !.pc = "rt_sign"])
         ELSE Step(p, Throw(i, "prepare failed"))

\* prepared = await client.prepareTransactionRequest(...): the nonce manager
\* hands out the account's next nonce; the call may fail
PrepareTransactionRequest(p, ok) ==
  /\ inv[p].pc = "rt_prepare"
  /\ LET i == inv[p]
     IN  IF ok
         THEN /\ inv' = [inv EXCEPT ![p] =
                   [SetCurTx(Ev(i, Stage(i), "prepare"),
                             [CurTx(i) EXCEPT !.state = "Prepared",
                                              !.nonce = nextNonce])
                      EXCEPT !.pc = "rt_sign"]]
              /\ nextNonce' = nextNonce + 1
              /\ UNCHANGED <<allowance, callsLeft, prev, offers, conv, draft>>
         ELSE Step(p, Throw(i, "prepare failed"))

\* serializedTransaction = await client.account.signTransaction(prepared)
SignTransaction(p, ok) ==
  /\ inv[p].pc = "rt_sign"
  /\ LET i == inv[p]
     IN  IF ok
         THEN Step(p, [SetCurTx(Ev(i, Stage(i), "sign"),
                                [CurTx(i) EXCEPT !.state = "Signed"])
                         EXCEPT !.pc = "rt_submit"])
         ELSE Step(p, Throw(i, "sign failed"))

\* the chain's execution of a submitted transaction on the allowance ledger
Execute(tx, status, ledger) ==
  IF tx.fn = "approve" /\ status = "success"
  THEN [ledger EXCEPT ![<<tx.address, tx.args.spender>>] = tx.args.amount]
  ELSE ledger

\* the chain's execution of a submitted transaction on the book: the logs it
\* can emit and the offers resting afterwards.  A limit order either is
\* consumed whole or leaves a resting offer; retracting an offer that no
\* longer rests emits nothing
Receipts(tx, status, live) ==
  IF status # "success" THEN {[logs |-> {}, offers |-> live]}
  ELSE CASE tx.fn = "marketOrderByTick" ->
              {[logs |-> {[name |-> "OrderComplete", id |-> 0]},
                offers |-> live]}
         [] tx.fn = "take" ->
              {[logs |-> {[name |-> "OrderComplete", id |-> 0]},
                offers |-> live],
               [logs |-> {[name |-> "OrderComplete", id |-> 0],
                          [name |-> "NewOwnedOffer", id |-> NewOfferId]},
                offers |-> live]}
         [] tx.fn = "retractOffer" ->
              IF tx.args.offerId \in live
              THEN {[logs |-> {[name |-> "OfferRetract",
                                id |-> tx.args.offerId]},
                     offers |-> live \ {tx.args.offerId}]}
              ELSE {[logs |-> {}, offers |-> live]}
         [] OTHER -> {[logs |-> {}, offers |-> live]}

\* whether the offer of a cancellation rested when the cancellation executed
OfferLive(i, tx, live) ==
  IF tx.fn # "retractOffer" THEN i.offerLive
  ELSE IF tx.args.offerId \in live THEN "live" ELSE "gone"

\* the send through the generic broadcast method
SendRawTransaction_Generic(p, status) ==
  /\ inv[p].pc = "rt_submit"
  /\ LET i == inv[p]
         tx == [CurTx(i) EXCEPT !.method = "eth_sendRawTransaction",
                  !.status = status,
                  !.state = IF status = "success" THEN "Finalized"
                            ELSE "Reverted"]
     IN  /\ \E o \in Receipts(tx, status, offers) :
              /\ inv' = [inv EXCEPT ![p] =
                   [SetCurTx(Ev(i, Stage(i), "submit"),
                             [tx EXCEPT !.logs = o.logs])
                      EXCEPT !.pc = ReceiptPc(i),
                             !.offerLive = OfferLive(i, tx, offers)]]
              /\ offers' = o.offers
         /\ allowance' = Execute(tx, status, allowance)
         /\ UNCHANGED <<nextNonce, callsLeft, prev, conv, draft>>

\* result = await client.request({method: "realtime_sendRawTransaction"}):
\* the transaction is executed and its receipt comes back
SendRawTransaction(p, status) ==
  /\ inv[p].pc = "rt_submit"
  /\ LET i == inv[p]
         tx == [CurTx(i) EXCEPT !.method = SubmitMethod, !.status = status,
                  !.state = IF status = "success" THEN "Finalized"
                            ELSE "Reverted"]
     IN  /\ \E o \in Receipts(tx, status, offers) :
              /\ inv' = [inv EXCEPT ![p] =
                   [SetCurTx(Ev(i, Stage(i), "submit"),
                             [tx EXCEPT !.logs = o.logs])
                      EXCEPT !.pc = ReceiptPc(i),
                             !.offerLive = OfferLive(i, tx, offers)]]
              /\ offers' = o.offers
         /\ allowance' = Execute(tx, status, allowance)
         /\ UNCHANGED <<nextNonce, callsLeft, prev, conv, draft>>

(***************************************************************************)
(* Specifications.                                                         *)
(***************************************************************************)
InitCommon ==
  /\ conv = NoConv
  /\ draft = NoDraft
  /\ nextNonce = 0
  /\ inv = [p \in Procs |-> IdleInv]
  /\ prev = [p \in Procs |-> NoPrev]

\* one caller, one orchestrator call, any starting ledger
Init ==
  /\ InitCommon
  /\ allowance \in [Pairs -> AllowanceSamples]
  /\ offers = OfferIds
  /\ callsLeft = [p \in Procs |-> IF p = "c1" THEN 1 ELSE 0]

\* one caller making MaxCalls calls in a row; some of its offers may have
\* been consumed already
InitSeq ==
  /\ InitCommon
  /\ allowance \in [Pairs -> {0, maxUint128}]
  /\ offers \in SUBSET OfferIds
  /\ callsLeft = [p \in Procs |-> IF p = "c1" THEN MaxCalls ELSE 0]

\* one step of one caller's invocation after it has started
Continue(p) ==
  \/ GetUserRouter(p)
  \/ GetBook(p)
  \/ GetApprovals(p)
  \/ ApprovalReceipt(p)
  \/ BuildOrder(p)
  \/ OrderReceipt(p)
  \/ Decode(p)
  \/ EncodeFunctionData(p)
  \/ \E ok \in BOOLEAN : PrepareTransactionRequest(p, ok)
  \/ \E ok \in BOOLEAN : SignTransaction(p, ok)
  \/ \E status \in {"success", "reverted"} : SendRawTransaction(p, status)

Next ==
  \E p \in Procs :
    \/ \E bs \in BS, v \in FillVolumes, fw \in BOOLEAN, skip \in BOOLEAN :
         \/ StartMarketOrder(p, bs, v, fw, FALSE, 0, skip)
         \/ \E price \in Prices : StartMarketOrder(p, bs, v, fw, TRUE, price, skip)
         \/ \E price \in Prices : StartLimitOrder(p, bs, v, fw, price, skip, NoOptions)
    \/ \E bs \in BS, id \in OfferIds, dp \in BOOLEAN :
         StartCancelLimitOrder(p, bs, id, dp)
    \/ Continue(p)

\* calls in a row: the intents vary in kind, direction and opt-out only
NextSeq ==
  \E p \in Procs :
    \/ \E bs \in BS, skip \in BOOLEAN :
         \/ StartMarketOrder(p, bs, 1, TRUE, FALSE, 0, skip)
         \/ StartLimitOrder(p, bs, 1, TRUE, 1, skip, NoOptions)
    \/ \E bs \in BS : StartCancelLimitOrder(p, bs, 1, TRUE)
    \/ Continue(p)

Spec == Init /\ [][Next]_vars
SpecSeq == InitSeq /\ [][NextSeq]_vars

\* both callers make one orchestrator call each on the same account, their
\* steps interleaved in every order; the ledger starts all empty or all
\* authorized
InitConc ==
  /\ InitCommon
  /\ allowance \in {[pr \in Pairs |-> a] : a \in {0, maxUint128}}
  /\ offers = OfferIds
  /\ callsLeft = [p \in Procs |-> 1]

SpecConc == InitConc /\ [][NextSeq]_vars

(***************************************************************************)
(* The path of a price through an orchestrator, from the caller's number   *)
(* to the tick in the protocol call, applied to drawn prices and markets.  *)
(***************************************************************************)
Markets ==
  {[base |-> [address |-> "base", decimals |-> bd],
    quote |-> [address |-> "quote", decimals |-> qd],
    tickSpacing |-> ts] :
     bd \in 0..MaxDecimals, qd \in 0..MaxDecimals, ts \in 1..MaxTickSpacing}

ConvPrices == (0 - 1)..MaxConvPrice

\* marketOrder({bs, maxPrice, market}): the maxTick of the call it builds
MarketOrderTickSent(bs, maxPrice, mkt) ==
  LET t == MarketMaxTick(bs, TRUE, maxPrice, mkt)
  IN  IF ~t.ok THEN [ok |-> FALSE, tick |-> t.tick]
      ELSE [ok |-> TRUE,
            tick |-> MarketOrderRequest([IdleInv EXCEPT !.bs = bs,
                                                        !.tick = t.tick],
                                        mkt).args.maxTick]

\* limitOrder({bs, price, market}): the tick of the call it builds
LimitOrderTickSent(bs, price, mkt) ==
  LET t == LimitTick(bs, price, mkt)
  IN  IF ~t.ok THEN t
      ELSE [ok |-> TRUE,
            tick |-> LimitOrderRequest([IdleInv EXCEPT !.bs = bs,
                                                       !.book = Book],
                                       t.tick, mkt).args.tick]

ApplyMarketOrder ==
  /\ conv.op = "input"
  /\ conv' = [conv EXCEPT !.op = "marketOrder",
                !.buy = MarketOrderTickSent("buy", conv.price, conv.market),
                !.sell = MarketOrderTickSent("sell", conv.price, conv.market)]
  /\ UNCHANGED <<allowance, nextNonce, callsLeft, inv, prev, offers, draft>>

ApplyLimitOrder ==
  /\ conv.op = "input"
  /\ conv' = [conv EXCEPT !.op = "limitOrder",
                !.buy = LimitOrderTickSent("buy", conv.price, conv.market),
                !.sell = LimitOrderTickSent("sell", conv.price, conv.market)]
  /\ UNCHANGED <<allowance, nextNonce, callsLeft, inv, prev, offers, draft>>

InitTick ==
  /\ conv \in {[NoConv EXCEPT !.op = "input", !.price = pr, !.market = m] :
                 pr \in ConvPrices, m \in Markets}
  /\ nextNonce = 0
  /\ inv = [p \in Procs |-> IdleInv]
  /\ prev = [p \in Procs |-> NoPrev]
  /\ draft = NoDraft
  /\ allowance = [pr \in Pairs |-> 0]
  /\ offers = {}
  /\ callsLeft = [p \in Procs |-> 0]

NextTick == ApplyMarketOrder \/ ApplyLimitOrder

SpecTick == InitTick /\ [][NextTick]_vars

(***************************************************************************)
(* The call limitOrder builds, as a function of the intent: its direction, *)
(* its optional properties and the market.                                 *)
(***************************************************************************)
OrderTypes == {Undefined, Order.GTC, Order.PO}
Logics == {Undefined, "logicA", "logicB"}
Options == [orderType : OrderTypes, baseTokenLogic : Logics,
            quoteTokenLogic : Logics]

\* limitOrder(client, mkt, {bs, price: 1, ...options}): the call built once
\* the router and the book are fetched
LimitOrderBuilt(bs, options, mkt) ==
  LET i == [LimitOrderProps(bs, 1, TRUE, 1, FALSE, options)
              EXCEPT !.userRouter = UserRouter, !.book = Book]
  IN  LimitOrderRequest(i, LimitTick(bs, 1, mkt).tick, mkt)

BuildLimitOrder ==
  /\ draft.op = "props"
  /\ draft' = [draft EXCEPT !.op = "built",
                 !.request = LimitOrderBuilt(draft.bs, draft.options,
                                             draft.market)]
  /\ UNCHANGED <<allowance, nextNonce, callsLeft, inv, prev, offers, conv>>

InitBuild ==
  /\ draft \in {[NoDraft EXCEPT !.op = "props", !.bs = bs, !.options = o,
                                !.market = m] :
                  bs \in BS, o \in Options, m \in Markets}
  /\ conv = NoConv
  /\ nextNonce = 0
  /\ inv = [p \in Procs |-> IdleInv]
  /\ prev = [p \in Procs |-> NoPrev]
  /\ allowance = [pr \in Pairs |-> 0]
  /\ offers = {}
  /\ callsLeft = [p \in Procs |-> 0]

NextBuild == BuildLimitOrder

SpecBuild == InitBuild /\ [][NextBuild]_vars

(***************************************************************************)
(* Reading an invocation's trace.                                          *)
(***************************************************************************)
Has(i, e) == \E k \in DOMAIN i.trace : i.trace[k] = e
Count(i, e) == Cardinality({k \in DOMAIN i.trace : i.trace[k] = e})
\* every occurrence of a comes before every occurrence of b
Before(i, a, b) ==
  \A ka, kb \in DOMAIN i.trace :
    (i.trace[ka] = a /\ i.trace[kb] = b) => ka < kb

EvRead     == <<"gate", "read">>
EvApprove  == <<"gate", "giveApprovalTo">>
EvBuild    == <<"order", "build">>
EvDecode   == <<"order", "decode">>
SendSteps  == <<"encode", "prepare", "sign", "submit">>

\* the send-path steps taken so far for the transaction of a stage
StepsOf(i, stage) ==
  SelectSeq(i.trace, LAMBDA e : e[1] = stage /\ e[2] \in
                                  {"encode", "prepare", "sign", "submit"})

(***************************************************************************)
(* C1: when the order transaction's receipt is reverted, the call throws   *)
(* the order-failed error, the decoder is never run on that receipt and no *)
(* {receipt, result} is returned (all three orchestrators).                *)
(***************************************************************************)
C1_RevertedOrderNeverDecoded ==
  \A p \in Procs :
    LET i == inv[p]
    IN  i.orderTx.status = "reverted" =>
          /\ i.pc \in {"orderReceipt", "done"}
          /\ ~Has(i, EvDecode)
          /\ i.result = NoResult
          /\ i.outcome # "returned"
          /\ i.pc = "done" =>
               (i.outcome = "threw" /\ i.error = OrderFailedMessage(i.kind))

C1_Witness ==
  \E p \in Procs :
    /\ inv[p].kind = "limit" /\ inv[p].pc = "done"
    /\ inv[p].orderTx.status = "reverted"
    /\ inv[p].outcome = "threw" /\ inv[p].error = "Limit order failed"

(***************************************************************************)
(* C2: after the gate completed without error, the allowance of the        *)
(* (token, spender) pair the gate queried is at least maxUint128 when the  *)
(* order transaction is submitted.                                         *)
(***************************************************************************)
C2_GateRaisesQueriedPair ==
  \A p \in Procs :
    LET i == inv[p]
    IN  (i.pc = "rt_submit" /\ i.cur = "order" /\ i.gateOk) =>
          allowance[<<i.token, i.spender>>] >= maxUint128

(***************************************************************************)
(* C3: when the gate ran to completion in a caller's previous call and the *)
(* next call has the same orchestrator and direction (skipApprovalCheck    *)
(* false), the second run issues no authorization transaction.             *)
(***************************************************************************)
C3_SecondGateIssuesNothing ==
  \A p \in Procs :
    LET i == inv[p]
    IN  (prev[p].gated /\ prev[p].kind = i.kind /\ prev[p].bs = i.bs
         /\ ~i.skipApprovalCheck) => ~Has(i, EvApprove)

(***************************************************************************)
(* C4: when the allowance query returns 0, giveApprovalTo is called        *)
(* exactly once, for maxUint256, at most one authorization transaction is  *)
(* submitted, and its receipt is there before the order is built, encoded  *)
(* or submitted.                                                           *)
(***************************************************************************)
C4_ZeroAllowanceOneApproval ==
  \A p \in Procs :
    LET i == inv[p]
    IN  i.approval = 0 =>
          /\ Count(i, EvApprove) = 1
          /\ i.approveTx.fn = "approve"
          /\ i.approveTx.args.amount = maxUint256
          /\ Count(i, <<"gate", "submit">>) <= 1
          /\ Has(i, EvBuild) =>
               /\ Count(i, <<"gate", "submit">>) = 1
               /\ i.approveTx.status # "none"
               /\ Before(i, <<"gate", "submit">>, EvBuild)
               /\ Before(i, <<"gate", "submit">>, <<"order", "encode">>)
               /\ Before(i, <<"gate", "submit">>, <<"order", "submit">>)

C4_Witness ==
  \E p \in Procs :
    /\ inv[p].approval = 0 /\ inv[p].pc = "done"
    /\ inv[p].outcome = "returned"
    /\ inv[p].approveTx.status = "success"

(***************************************************************************)
(* C5: an authorization is issued if and only if the queried allowance is  *)
(* strictly below maxUint128, whatever fillVolume is, and it is issued for *)
(* maxUint256.                                                             *)
(***************************************************************************)
C5_ThresholdDecides ==
  \A p \in Procs :
    LET i == inv[p]
    IN  i.approval # NoRead =>
          /\ Has(i, EvApprove) <=> (i.approval < maxUint128)
          /\ Has(i, EvApprove) => i.approveTx.args.amount = maxUint256
          /\ ~Has(i, EvApprove) => i.approveTx = NoTx

C5_Witness ==
  \E p \in Procs :
    /\ inv[p].approval = maxUint128 - 1
    /\ inv[p].approval >= inv[p].fillVolume
    /\ Has(inv[p], EvApprove)
    /\ inv[p].approveTx.status = "success"

(***************************************************************************)
(* C6: with skipApprovalCheck the call reads no allowance, issues no       *)
(* authorization, submits nothing but the order transaction, and none of   *)
(* its steps changes the allowance ledger.                                 *)
(***************************************************************************)
C6_SkipState ==
  \A p \in Procs :
    LET i == inv[p]
    IN  i.skipApprovalCheck =>
          /\ ~Has(i, EvRead) /\ i.approval = NoRead
          /\ ~Has(i, EvApprove) /\ i.approveTx = NoTx
          /\ \A k \in DOMAIN i.trace : i.trace[k][1] # "gate"
          /\ Count(i, <<"order", "submit">>) <= 1

C6_SkipStep ==
  \A p \in Procs :
    (inv'[p] # inv[p] /\ inv'[p].skipApprovalCheck) => allowance' = allowance

C6_SkipLeavesLedger == [](C6_SkipState) /\ [][C6_SkipStep]_vars

C6_Witness ==
  \E p \in Procs :
    /\ inv[p].skipApprovalCheck /\ inv[p].kind = "market"
    /\ inv[p].pc = "done" /\ inv[p].outcome = "returned"
    /\ allowance[<<GateToken(inv[p].bs, market), params.mgv>>] = 0

(***************************************************************************)
(* C7: when the gate's authorization transaction reverts the call fails    *)
(* with the approval error and the order is neither built nor submitted.   *)
(***************************************************************************)
C7_RevertedApprovalStops ==
  \A p \in Procs :
    LET i == inv[p]
    IN  i.approveTx.status = "reverted" =>
          /\ i.pc \in {"approvalReceipt", "done"}
          /\ i.pc = "done" => (i.outcome = "threw" /\ i.error = "Approval failed")
          /\ ~Has(i, EvBuild)
          /\ i.orderTx = NoTx
          /\ \A k \in DOMAIN i.trace : i.trace[k][1] # "order"

C7_Witness ==
  \E p \in Procs :
    /\ inv[p].approveTx.status = "reverted" /\ inv[p].pc = "done"
    /\ inv[p].error = "Approval failed"

(***************************************************************************)
(* C8: no stage is retried: per invocation at most one authorization and   *)
(* one order transaction, stages in the order gate, build, submit, decode, *)
(* and nothing runs after a stage has failed.                              *)
(***************************************************************************)
StageRank(e) ==
  CASE e[1] = "props"  -> 0
    [] e[1] = "gate"   -> 1
    [] e = EvBuild     -> 2
    [] e = EvDecode    -> 4
    [] OTHER           -> 3

C8_StagesState ==
  \A p \in Procs :
    LET i == inv[p]
    IN  /\ \A e \in {EvRead, EvApprove, EvBuild, EvDecode,
                     <<"gate", "submit">>, <<"order", "submit">>} :
             Count(i, e) <= 1
        /\ \A k, l \in DOMAIN i.trace :
             k < l => StageRank(i.trace[k]) <= StageRank(i.trace[l])
        /\ Has(i, EvDecode) => Has(i, <<"order", "submit">>)
        /\ Has(i, <<"order", "submit">>) => Has(i, EvBuild)
        /\ (Has(i, EvBuild) /\ i.kind # "cancel" /\ ~i.skipApprovalCheck)
             => Has(i, EvRead)
        /\ i.outcome = "threw" => i.pc = "done"

C8_FailureStops ==
  \A p \in Procs :
    inv[p].outcome = "threw" =>
      (inv'[p] = inv[p] \/ callsLeft'[p] < callsLeft[p])

C8_NoRetryFixedOrder == [](C8_StagesState) /\ [][C8_FailureStops]_vars

C8_Witness ==
  \E p \in Procs :
    /\ inv[p].pc = "done" /\ inv[p].outcome = "returned"
    /\ Has(inv[p], <<"gate", "submit">>) /\ Has(inv[p], EvDecode)

(***************************************************************************)
(* C9: every transaction goes encode, prepare, sign, submit, each once and *)
(* in that order, is submitted by realtime_sendRawTransaction only, ends   *)
(* with a receipt that is success (Finalized) or reverted (Reverted); a    *)
(* failed prepare or sign submits nothing; the ledger changes only in a    *)
(* submit step of the send path.                                           *)
(***************************************************************************)
\* the step names of a run of send-path events are a prefix of b
IsPrefix(a, b) == Len(a) <= Len(b) /\ \A k \in 1..Len(a) : a[k][2] = b[k]

C9_TxState(i, stage, tx) ==
  LET steps == StepsOf(i, stage)
  IN  /\ IsPrefix(steps, SendSteps)
      /\ tx.state = CASE Len(steps) = 0 -> "None"
                      [] Len(steps) = 1 -> "Built"
                      [] Len(steps) = 2 -> "Prepared"
                      [] Len(steps) = 3 -> "Signed"
                      [] OTHER -> IF tx.status = "success" THEN "Finalized"
                                  ELSE "Reverted"
      /\ Len(steps) = 4 <=> tx.status \in {"success", "reverted"}
      /\ Len(steps) < 4 => (tx.status = "none" /\ tx.method = "none")
      /\ Len(steps) = 4 => tx.method = "realtime_sendRawTransaction"
      /\ tx.fn = "none" => Len(steps) = 0

C9_SendState ==
  \A p \in Procs :
    LET i == inv[p]
    IN  /\ C9_TxState(i, "gate", i.approveTx)
        /\ C9_TxState(i, "order", i.orderTx)
        /\ i.error \in {"prepare failed", "sign failed"} =>
             (CurTx(i).status = "none" /\ ~Has(i, <<Stage(i), "submit">>))

C9_LedgerStep ==
  allowance' # allowance =>
    \E p \in Procs :
      /\ inv[p].pc = "rt_submit"
      /\ inv'[p].trace = Append(inv[p].trace, <<"gate", "submit">>)
      /\ inv'[p].approveTx.method = "realtime_sendRawTransaction"

C9_RealtimeSendPath == [](C9_SendState) /\ [][C9_LedgerStep]_vars

C9_Witness ==
  \E p \in Procs :
    /\ inv[p].approveTx.state = "Finalized"
    /\ inv[p].orderTx.state = "Reverted"
    /\ inv[p].orderTx.method = "realtime_sendRawTransaction"

(***************************************************************************)
(* C10: for every valid price and market the tick sent for a buy is the    *)
(* negation of the tick sent for a sell, in marketOrder (maxPrice given)   *)
(* and in limitOrder; the sell tick is the converted tick itself, so the   *)
(* negation is applied exactly once, on the buy.                           *)
(***************************************************************************)
C10_BuyTickNegatesSellTick ==
  (conv.op \in {"marketOrder", "limitOrder"} /\ conv.price > 0) =>
    LET T == tickFromPrice(humanPriceToRawPrice(conv.price, conv.market),
                           conv.market.tickSpacing)
    IN  /\ conv.buy.ok /\ conv.sell.ok
        /\ conv.buy.tick = 0 - conv.sell.tick
        /\ conv.sell.tick = T.tick

C10_Witness ==
  /\ conv.op = "marketOrder" /\ conv.price > 0
  /\ conv.buy.ok /\ conv.sell.ok
  /\ conv.sell.tick > 0 /\ conv.buy.tick < 0


(***************************************************************************)
(* C11: a call whose human price is <= 0 (marketOrder with maxPrice given, *)
(* limitOrder with price) has failed with the invalid-price error and has  *)
(* performed no network operation: no router or book fetch, no allowance   *)
(* read, no authorization and no order transaction.                        *)
(***************************************************************************)
C11_NonPositivePriceRejectedLocally ==
  \A p \in Procs :
    LET i == inv[p]
    IN  (i.kind \in {"market", "limit"} /\ i.hasPrice /\ i.price <= 0) =>
          /\ i.pc = "done" /\ i.outcome = "threw"
          /\ i.error = "Invalid price"
          /\ i.trace = <<>>
          /\ i.approval = NoRead
          /\ i.approveTx = NoTx /\ i.orderTx = NoTx


(***************************************************************************)
(* C12: every tick an orchestrator places in the order call it builds      *)
(* satisfies |tick| <= MAX_TICK: an intent whose computed tick is beyond   *)
(* the bound is rejected (no call is built) instead.                       *)
(***************************************************************************)
Abs(n) == IF n < 0 THEN 0 - n ELSE n

C12_SubmittedTickWithinBound ==
  conv.op \in {"marketOrder", "limitOrder"} =>
    /\ conv.buy.ok => Abs(conv.buy.tick) <= MAX_TICK
    /\ conv.sell.ok => Abs(conv.sell.tick) <= MAX_TICK


(***************************************************************************)
(* C13: rounding never favors the taker.  The tick sent stands for a limit *)
(* price on the grid (TickBase^tick on the bid side, the mirrored          *)
(* TickBase^(-tick) on the ask side a buy consumes).  For a price that is  *)
(* not on the grid, the limit price of a buy is not below the requested    *)
(* price and the limit price of a sell is not above it.                    *)
(***************************************************************************)
\* the price a tick stands for, as the fraction num/den
priceFromTick(tick) ==
  IF tick >= 0 THEN [num |-> Pow(TickBase, tick), den |-> 1]
               ELSE [num |-> 1, den |-> Pow(TickBase, 0 - tick)]

\* the limit price of the call built for direction bs with the tick sent
LimitPriceSent(bs, tick) ==
  priceFromTick(IF bs = "buy" THEN 0 - tick ELSE tick)

FracLess(a, b) == a.num * b.den < b.num * a.den
FracEq(a, b) == a.num * b.den = b.num * a.den

ConvRaw == humanPriceToRawPrice(conv.price, conv.market)

\* the requested price is on the grid of the market: no rounding happens
OnGrid ==
  \E t \in (0 - MaxConvPrice)..MaxConvPrice :
    /\ t % conv.market.tickSpacing = 0
    /\ FracEq(priceFromTick(t), ConvRaw)

C13_SellNotFavored ==
  (conv.op \in {"marketOrder", "limitOrder"} /\ conv.price > 0 /\ ~OnGrid) =>
    ~FracLess(ConvRaw, LimitPriceSent("sell", conv.sell.tick))

C13_BuyNotFavored ==
  (conv.op \in {"marketOrder", "limitOrder"} /\ conv.price > 0 /\ ~OnGrid) =>
    ~FracLess(LimitPriceSent("buy", conv.buy.tick), ConvRaw)

C13_RoundingNeverFavorsTaker == C13_SellNotFavored /\ C13_BuyNotFavored


(***************************************************************************)
(* C14: partial effects survive a failed call.  When the authorization     *)
(* transaction of a call succeeded and its order transaction reverted, the *)
(* call ends by throwing the order's failure, the raised allowance stays   *)
(* on the ledger, and getApprovals for the authorized (token, spender)     *)
(* returns the raised allowance.                                           *)
(***************************************************************************)
C14_PartialEffectsSurvive ==
  \A p \in Procs :
    LET i == inv[p]
    IN  (i.approveTx.status = "success" /\ i.orderTx.status = "reverted") =>
          /\ i.pc \in {"orderReceipt", "done"}
          /\ i.pc = "done" =>
               (i.outcome = "threw" /\ i.error = OrderFailedMessage(i.kind))
          /\ getApprovals(allowance, i.approveTx.address,
                          i.approveTx.args.spender) = i.approveTx.args.amount
          /\ ~NeedsApproval(getApprovals(allowance, i.approveTx.address,
                                         i.approveTx.args.spender))

C14_Witness ==
  \E p \in Procs :
    /\ inv[p].pc = "done" /\ inv[p].outcome = "threw"
    /\ inv[p].approveTx.status = "success"
    /\ inv[p].orderTx.status = "reverted"
    /\ allowance[<<inv[p].token, params.mgv>>] = maxUint256


(***************************************************************************)
(* C15: cancellation of an offer that no longer rests.  As stated: a       *)
(* cancelLimitOrder whose transaction executes when the offer is already   *)
(* cancelled or filled returns a result with success = FALSE and does not  *)
(* throw.                                                                  *)
(***************************************************************************)
C15_CancelOfGoneOfferNeverFails ==
  \A p \in Procs :
    LET i == inv[p]
    IN  (i.kind = "cancel" /\ i.offerLive = "gone" /\ i.pc = "done") =>
          (i.outcome = "returned" /\ i.result.success = FALSE)

(***************************************************************************)
(* C15, amended: a cancellation that follows a successful cancellation of  *)
(* the same offer executes when the offer is gone; a cancellation executed *)
(* when the offer is gone returns success = FALSE without throwing when    *)
(* its receipt is not reverted, and throws the cancellation failure when   *)
(* its receipt is reverted.                                                *)
(***************************************************************************)
C15_CancelOfGoneOffer ==
  \A p \in Procs :
    LET i == inv[p]
    IN  /\ (/\ i.kind = "cancel" /\ i.orderTx.status # "none"
            /\ prev[p].kind = "cancel" /\ prev[p].success
            /\ prev[p].offerId = i.offerId) => i.offerLive = "gone"
        /\ (i.kind = "cancel" /\ i.offerLive = "gone" /\ i.pc = "done") =>
             /\ i.orderTx.status = "success" =>
                  /\ i.outcome = "returned"
                  /\ i.result.success = FALSE
                  /\ i.logged = "not found"
             /\ i.orderTx.status = "reverted" =>
                  /\ i.outcome = "threw"
                  /\ i.error = "Limit order cancellation failed"

C15_Witness ==
  \E p \in Procs :
    /\ prev[p].kind = "cancel" /\ prev[p].success
    /\ inv[p].kind = "cancel" /\ inv[p].offerId = prev[p].offerId
    /\ inv[p].pc = "done" /\ inv[p].outcome = "returned"
    /\ inv[p].offerLive = "gone"
    /\ inv[p].result.success = FALSE

(***************************************************************************)
(* C16: a limit order whose receipt is not reverted and carries no event   *)
(* of a resting offer makes limitOrder return normally, with the offer     *)
(* absent from the result.                                                 *)
(***************************************************************************)
C16_NoRestingOfferReturnsNormally ==
  \A p \in Procs :
    LET i == inv[p]
    IN  (/\ i.kind = "limit" /\ i.orderTx.status = "success"
         /\ ~\E e \in i.orderTx.logs : e.name = "NewOwnedOffer") =>
          /\ i.pc \in {"orderReceipt", "decode", "done"}
          /\ i.pc = "done" =>
               /\ i.outcome = "returned"
               /\ i.result.kind = "limit"
               /\ i.result.offer = NoOffer
               /\ i.logged = ""

C16_Witness ==
  \E p \in Procs :
    /\ inv[p].kind = "limit" /\ inv[p].pc = "done"
    /\ inv[p].orderTx.status = "success"
    /\ ~\E e \in inv[p].orderTx.logs : e.name = "NewOwnedOffer"
    /\ inv[p].outcome = "returned" /\ inv[p].result.offer = NoOffer


(***************************************************************************)
(* C17: nonces are unique per account.  Whatever the interleaving of the   *)
(* callers' orchestrator calls, no two transactions that got a nonce (and  *)
(* so no two that are signed and submitted) carry the same nonce.          *)
(***************************************************************************)
\* the transactions of the running or last invocations that were prepared
PreparedTxs ==
  {<<p, c>> \in Procs \X {"approve", "order"} :
     (IF c = "approve" THEN inv[p].approveTx ELSE inv[p].orderTx).nonce # NoRead}

NonceOf(pc) ==
  (IF pc[2] = "approve" THEN inv[pc[1]].approveTx ELSE inv[pc[1]].orderTx).nonce

C17_NoncesUnique ==
  \A a \in PreparedTxs, b \in PreparedTxs :
    a # b => NonceOf(a) # NonceOf(b)

\* both callers hold a prepared, not yet signed transaction at once
C17_Witness ==
  \E p \in Procs, q \in Procs :
    /\ p # q
    /\ inv[p].pc = "rt_sign" /\ inv[q].pc = "rt_sign"
    /\ <<p, inv[p].cur>> \in PreparedTxs
    /\ <<q, inv[q].cur>> \in PreparedTxs


(***************************************************************************)
(* C18: semibook selection.  The order transaction of marketOrder and of   *)
(* limitOrder names the ask semibook (outbound base, inbound quote) on a   *)
(* buy and the bid semibook (outbound quote, inbound base) on a sell.      *)
(***************************************************************************)
C18_SemibookSelection ==
  \A p \in Procs :
    LET i == inv[p]
    IN  i.orderTx.fn \in {"marketOrderByTick", "take"} =>
          /\ i.bs = "buy" =>
               /\ i.orderTx.args.olKey.side = "asks"
               /\ i.orderTx.args.olKey.outbound_tkn = market.base.address
               /\ i.orderTx.args.olKey.inbound_tkn = market.quote.address
          /\ i.bs = "sell" =>
               /\ i.orderTx.args.olKey.side = "bids"
               /\ i.orderTx.args.olKey.outbound_tkn = market.quote.address
               /\ i.orderTx.args.olKey.inbound_tkn = market.base.address

C18_Witness ==
  \E p \in Procs :
    /\ inv[p].kind = "limit" /\ inv[p].bs = "sell"
    /\ inv[p].orderTx.status = "success"
    /\ inv[p].orderTx.args.olKey.side = "bids"

(***************************************************************************)
(* C19, as stated: the call limitOrder builds carries the local            *)
(* configuration of the semibook it takes (asks configuration with the ask *)
(* semibook on a buy, bids configuration with the bid semibook on a sell)  *)
(* and the book's market configuration as global configuration.            *)
(***************************************************************************)
C19_LocalConfigOfTakenSide ==
  draft.op = "built" =>
    LET a == draft.request.args
    IN  /\ draft.bs = "buy" =>
             (a.olKey.side = "asks" /\ a.localConfig = Book.asksConfig)
        /\ draft.bs = "sell" =>
             (a.olKey.side = "bids" /\ a.localConfig = Book.bidsConfig)
        /\ a.globalConfig = Book.marketConfig

(***************************************************************************)
(* C19, amended: the call limitOrder builds carries the local              *)
(* configuration of the side the order itself is on, which is the side     *)
(* opposite to the semibook it takes: bids configuration with the ask      *)
(* semibook on a buy, asks configuration with the bid semibook on a sell;  *)
(* the global configuration is the book's market configuration.            *)
(***************************************************************************)
C19_LocalConfigOfOwnSide ==
  draft.op = "built" =>
    LET a == draft.request.args
    IN  /\ draft.bs = "buy" =>
             (a.olKey.side = "asks" /\ a.localConfig = Book.bidsConfig)
        /\ draft.bs = "sell" =>
             (a.olKey.side = "bids" /\ a.localConfig = Book.asksConfig)
        /\ a.globalConfig = Book.marketConfig

C19_Witness ==
  /\ draft.op = "built" /\ draft.bs = "buy"
  /\ draft.request.args.olKey.side = "asks"
  /\ draft.request.args.localConfig = "bidsConfig"
  /\ draft.request.args.globalConfig = "marketConfig"

(***************************************************************************)
(* C20: routing logic of limitOrder.  On a buy takerGivesLogic is the      *)
(* quote token logic and takerWantsLogic the base token logic, on a sell   *)
(* the other way round; a logic left out is the zero address; orderType is *)
(* forwarded as given and is GTC when left out.                            *)
(***************************************************************************)
C20_RoutingLogic ==
  draft.op = "built" =>
    LET a == draft.request.args
        o == draft.options
        baseLogic == IF o.baseTokenLogic = Undefined THEN zeroAddress
                     ELSE o.baseTokenLogic
        quoteLogic == IF o.quoteTokenLogic = Undefined THEN zeroAddress
                      ELSE o.quoteTokenLogic
    IN  /\ draft.bs = "buy" =>
             (a.takerGivesLogic = quoteLogic /\ a.takerWantsLogic = baseLogic)
        /\ draft.bs = "sell" =>
             (a.takerGivesLogic = baseLogic /\ a.takerWantsLogic = quoteLogic)
        /\ o.orderType # Undefined => a.orderType = o.orderType
        /\ o.orderType = Undefined => a.orderType = Order.GTC

C20_Witness ==
  /\ draft.op = "built" /\ draft.bs = "buy"
  /\ draft.options.baseTokenLogic = "logicA"
  /\ draft.options.quoteTokenLogic = Undefined
  /\ draft.options.orderType = Order.PO
  /\ draft.request.args.takerGivesLogic = zeroAddress
  /\ draft.request.args.takerWantsLogic = "logicA"
  /\ draft.request.args.orderType = "PO"


(***************************************************************************)
(* C21: a market order given no price bound carries the unbounded-price    *)
(* sentinel MAX_TICK as its maxTick on a buy and on a sell alike (the      *)
(* sentinel is not negated on a buy), and the price conversion is not      *)
(* invoked for it, so it is never rejected for its price.                  *)
(***************************************************************************)
C21_NoPriceUsesSentinel ==
  \A p \in Procs :
    LET i == inv[p]
    IN  (i.kind = "market" /\ ~i.hasPrice) =>
          /\ i.tick = MAX_TICK
          /\ ~i.converted
          /\ i.error # "Invalid price"
          /\ i.orderTx.fn = "marketOrderByTick" =>
               i.orderTx.args.maxTick = MAX_TICK

C21_Witness ==
  \E p \in Procs :
    /\ inv[p].kind = "market" /\ ~inv[p].hasPrice /\ inv[p].bs = "buy"
    /\ inv[p].orderTx.status = "success"
    /\ inv[p].orderTx.args.maxTick = MAX_TICK
    /\ ~inv[p].converted


(***************************************************************************)
(* C22: the gate of marketOrder and limitOrder works on the asset the      *)
(* taker gives (quote on a buy, base on a sell): the allowance it reads    *)
(* and the authorization it issues are on that token, and no step of a     *)
(* call changes the allowance of the other asset of the market.            *)
(***************************************************************************)
GivenToken(bs) ==
  IF bs = "buy" THEN market.quote.address ELSE market.base.address

C22_GateState ==
  \A p \in Procs :
    LET i == inv[p]
    IN  i.kind \in {"market", "limit"} =>
          /\ (i.pc = "getApprovals" \/ i.approval # NoRead) =>
               i.token = GivenToken(i.bs)
          /\ i.approveTx.fn = "approve" =>
               i.approveTx.address = GivenToken(i.bs)

C22_LedgerStep ==
  \A pr \in Pairs :
    allowance'[pr] # allowance[pr] =>
      \E p \in Procs :
        /\ inv[p].kind \in {"market", "limit"}
        /\ inv[p].cur = "approve"
        /\ pr[1] = GivenToken(inv[p].bs)

C22_GateOnGivenToken == [](C22_GateState) /\ [][C22_LedgerStep]_vars

C22_Witness ==
  \E p \in Procs :
    /\ inv[p].kind = "limit" /\ inv[p].bs = "sell"
    /\ inv[p].approval # NoRead /\ inv[p].token = "base"
    /\ inv[p].approveTx.status = "success"
    /\ inv[p].approveTx.address = "base"
    /\ \A s \in Spenders : allowance[<<"quote", s>>] < maxUint256


(***************************************************************************)
(* C23: concurrent market orders with the gate on.  In every interleaving  *)
(* of the callers' calls on the one account, the order transaction of a    *)
(* marketOrder called with skipApprovalCheck = false is submitted only     *)
(* when the allowance of (given token, params.mgv) is at least maxUint128, *)
(* even when both callers read a low allowance and both issued an          *)
(* authorization.                                                          *)
(***************************************************************************)
C23_SubmitStep ==
  \A p \in Procs :
    (/\ inv[p].kind = "market" /\ ~inv[p].skipApprovalCheck
     /\ inv[p].orderTx.status = "none"
     /\ inv'[p].orderTx.status # "none") =>
       allowance[<<GivenToken(inv[p].bs), params.mgv>>] >= maxUint128

C23_SubmittedState ==
  \A p \in Procs :
    (/\ inv[p].kind = "market" /\ ~inv[p].skipApprovalCheck
     /\ inv[p].orderTx.status # "none") =>
       allowance[<<GivenToken(inv[p].bs), params.mgv>>] >= maxUint128

C23_OrderSubmittedWhenAuthorized ==
  [](C23_SubmittedState) /\ [][C23_SubmitStep]_vars

\* both callers read a low allowance of the same pair, both authorized, and
\* both market orders were submitted
C23_Witness ==
  \E p \in Procs, q \in Procs :
    /\ p # q
    /\ inv[p].kind = "market" /\ inv[q].kind = "market"
    /\ inv[p].bs = inv[q].bs
    /\ ~inv[p].skipApprovalCheck /\ ~inv[q].skipApprovalCheck
    /\ inv[p].approval # NoRead /\ inv[p].approval < maxUint128
    /\ inv[q].approval # NoRead /\ inv[q].approval < maxUint128
    /\ inv[p].approveTx.status = "success"
    /\ inv[q].approveTx.status = "success"
    /\ inv[p].orderTx.status # "none" /\ inv[q].orderTx.status # "none"

(***************************************************************************)
(* C24: the orchestrators never lower an allowance.  Every authorization   *)
(* transaction of marketOrder and limitOrder is for maxUint256, no step of *)
(* any sequence of calls decreases the allowance of a (token, spender)     *)
(* pair, and cancelLimitOrder reads no allowance and issues no             *)
(* authorization transaction.                                              *)
(***************************************************************************)
C24_State ==
  \A p \in Procs :
    LET i == inv[p]
    IN  /\ i.approveTx.fn = "approve" => i.approveTx.args.amount = maxUint256
        /\ i.approveTx # NoTx => i.kind \in {"market", "limit"}
        /\ i.kind = "cancel" =>
             /\ i.approval = NoRead /\ i.approveTx = NoTx
             /\ ~Has(i, EvRead) /\ ~Has(i, EvApprove)
             /\ \A k \in DOMAIN i.trace : i.trace[k][1] # "gate"

C24_LedgerStep ==
  \A pr \in Pairs : allowance'[pr] >= allowance[pr]

C24_AllowanceNeverLowered == [](C24_State) /\ [][C24_LedgerStep]_vars

\* a call that authorized, followed by a finished cancellation
C24_Witness ==
  \E p \in Procs :
    /\ prev[p].kind \in {"market", "limit"} /\ prev[p].gated
    /\ inv[p].kind = "cancel" /\ inv[p].pc = "done"
    /\ inv[p].orderTx.status = "success"
    /\ \E pr \in Pairs : allowance[pr] = maxUint256

====
